---- MODULE Spec2Model ----
(***************************************************************************)
(* The deploy / test / rollback pipeline of momma-bear, as documented in   *)
(* .github/README.md and the CI/CD setup summary: the reusable CI          *)
(* workflow (ci.yml), the PR preview workflow (pr-preview.yml), the push   *)
(* deployment (deploy-pr.yml), the merge queue deployment                  *)
(* (merge-queue.yml) and the rollback workflow (rollback.yml).             *)
(*                                                                         *)
(* A workflow run is a record; its jobs and steps execute one after the    *)
(* other (pc names the step about to run) and a failing step ends its     *)
(* job. Spec is the production pipeline (merge queue deployment and        *)
(* rollback), SpecCi the reusable CI workflow, SpecPreview the deployments *)
(* made for pull requests and pushes, SpecPublishers the two publishers,   *)
(* SpecTests the Playwright suite of tests/e2e/critical.spec.js.           *)
(***************************************************************************)
EXTENDS Integers, Sequences, FiniteSets, TLC

\* Bound: the number of workflow runs one behaviour creates.
MaxRuns == 3

\* Bound: the number of runs the platform's runners execute at a time;
\* a run triggered beyond it waits in the platform's queue.
MaxActive == 1

\* Values of the URL inputs: none, the URL printed by the deployment,
\* the PRODUCTION_URL secret, the URL a caller of ci.yml passes.
NoUrl == ""
ParsedUrl == "https://deployment.example"
SecretUrl == "https://production.example"
CallerUrl == "https://preview.example"

\* The default of the base-url input of the e2e-tests action.
LocalhostUrl == "http://localhost:3000"

VARIABLES
    runs,        \* the workflow runs, in the order they were triggered
    parents,     \* parents[r]: the parent commit of revision r (0: none)
    head,        \* the commit at the tip of the main branch
    production,  \* the revision live in production
    events,      \* workflow_run "completed" events not yet delivered
    tests        \* the Playwright tests of one run of the suite, in order

vars == <<runs, parents, head, production, events, tests>>

Revisions == 1..Len(parents)
RunIds == 1..Len(runs)

\* A run before its first step.
Blank ==
    [kind |-> "", trigger |-> "", fork |-> FALSE, input |-> NoUrl,
     rev |-> 0, cause |-> 0, supplied |-> 0, failedRev |-> 0, target |-> 0,
     pc |-> "setup", steps |-> <<>>, failed |-> "none",
     ci |-> "pending", ciE2e |-> "pending",
     deploy |-> "pending", deployed |-> FALSE, url |-> NoUrl,
     baseUrl |-> NoUrl, e2e |-> "pending", comment |-> FALSE, notified |-> FALSE,
     conclusion |-> "none", merge |-> "none"]

\* Workflows whose first job is the reusable CI workflow.
HasCiJob(r) == r.kind \in {"ci", "pr-preview", "merge-queue"}

\* The previous commit of a revision.
PreviousCommit(rev) == parents[rev]

\* Merge-queue runs whose outcome may still ask for a rollback run.
OwedRollbacks ==
    Cardinality({i \in RunIds : /\ runs[i].kind = "merge-queue"
                                /\ \/ runs[i].conclusion = "none"
                                   \/ i \in events})

\* Room for one more run, keeping a slot for every rollback still owed.
Room(n) == Len(runs) + OwedRollbacks + n <= MaxRuns

\* A runner is free to pick up a new run.
RunnerFree == Cardinality({i \in RunIds : runs[i].pc # "done"}) < MaxActive

\* The revision of the latest merge-queue run that failed (0: none).
LastFailedRev ==
    LET F == {i \in RunIds : /\ runs[i].kind = "merge-queue"
                             /\ runs[i].conclusion = "failure"}
    IN IF F = {} THEN 0
       ELSE runs[CHOOSE i \in F : \A j \in F : j <= i].rev

Init ==
    /\ runs = <<>>
    /\ parents = <<0>>
    /\ head = 1
    /\ production = 1
    /\ events = {}
    /\ tests = <<>>

------------------------------------------------------------------------------
\* Triggers

\* ci.yml called by another workflow, with or without a base URL.
WorkflowCall ==
    /\ RunnerFree
    /\ Room(1)
    /\ \E u \in {NoUrl, CallerUrl} :
         runs' = Append(runs, [Blank EXCEPT !.kind = "ci",
                     !.trigger = "workflow_call", !.input = u])
    /\ UNCHANGED <<parents, head, production, events, tests>>

\* pr-preview.yml: a pull request was opened, synchronized or reopened.
PullRequest ==
    /\ RunnerFree
    /\ Room(1)
    /\ \E f \in BOOLEAN :
         runs' = Append(runs, [Blank EXCEPT !.kind = "pr-preview",
                     !.trigger = "pull_request", !.fork = f])
    /\ UNCHANGED <<parents, head, production, events, tests>>

\* deploy-pr.yml: a push to a branch of this repository.
Push ==
    /\ RunnerFree
    /\ Room(1)
    /\ runs' = Append(runs, [Blank EXCEPT !.kind = "deploy-pr",
                   !.trigger = "push", !.pc = "setup-deploy"])
    /\ UNCHANGED <<parents, head, production, events, tests>>

\* merge-queue.yml: a pull request entered the merge queue. The queue is
\* serial: the merge group is a new commit on top of the main branch.
MergeGroup ==
    /\ RunnerFree
    /\ Room(2)
    /\ \A i \in RunIds : runs[i].merge # "queued"
    /\ parents' = Append(parents, head)
    /\ runs' = Append(runs, [Blank EXCEPT !.kind = "merge-queue",
                   !.trigger = "merge_group", !.rev = Len(parents) + 1,
                   !.merge = "queued"])
    /\ UNCHANGED <<head, production, events, tests>>

\* Mutant of RollbackWanted: a rollback only when a deployment was started.
RollbackWantedAfterDeployOnly(r) ==
    r.conclusion = "failure" /\ r.deploy # "pending"

\* rollback.yml, workflow_run: the platform delivers the "completed" event
\* of a merge queue deployment run; the rollback job runs when that run
\* failed.
RollbackWanted(r) == r.conclusion = "failure"

WorkflowRunCompleted ==
    \E i \in events :
        /\ events' = events \ {i}
        /\ IF RollbackWanted(runs[i])
           THEN /\ RunnerFree
                /\ Len(runs) < MaxRuns
                /\ runs' = Append(runs, [Blank EXCEPT !.kind = "rollback",
                               !.trigger = "workflow_run", !.cause = i,
                               !.failedRev = runs[i].rev, !.pc = "checkout"])
           ELSE UNCHANGED runs
        /\ UNCHANGED <<parents, head, production, tests>>

\* rollback.yml, workflow_dispatch: an operator starts a rollback by hand
\* and supplies the revision to redeploy.
WorkflowDispatch ==
    /\ RunnerFree
    /\ Room(1)
    /\ \E s \in Revisions :
         runs' = Append(runs, [Blank EXCEPT !.kind = "rollback",
                     !.trigger = "workflow_dispatch", !.supplied = s,
                     !.failedRev = LastFailedRev, !.pc = "checkout"])
    /\ UNCHANGED <<parents, head, production, events, tests>>

------------------------------------------------------------------------------
\* Jobs and their steps, in the order the workflows list them

CiSteps == <<"setup", "check", "ci-e2e">>
PreviewSteps == <<"setup-deploy", "auth", "deploy", "comment">>
DeployPrSteps == <<"setup-deploy", "auth", "deploy">>

\* Mutant of MergeQueueSteps: the E2E step listed before the deploy step.
MergeQueueStepsTestsFirst ==
    <<"setup-deploy", "auth", "e2e", "deploy", "wait", "url">>

MergeQueueSteps == <<"setup-deploy", "auth", "deploy", "wait", "url", "e2e">>

\* Mutant of RollbackSteps: the E2E tests run after the redeployment.
RollbackStepsWithTests == <<"checkout", "auth", "deploy", "e2e", "notify">>

RollbackSteps == <<"checkout", "auth", "deploy", "notify">>

\* The steps of the deployment job of a run.
JobSteps(r) ==
    CASE r.kind = "pr-preview" -> PreviewSteps
      [] r.kind = "deploy-pr" -> DeployPrSteps
      [] r.kind = "merge-queue" -> MergeQueueSteps
      [] r.kind = "rollback" -> RollbackSteps
      [] OTHER -> <<>>

\* The step after s in a job; the run concludes after the last one.
Successor(steps, s) ==
    LET k == CHOOSE k \in 1..Len(steps) : steps[k] = s
    IN IF k < Len(steps) THEN steps[k + 1] ELSE "conclude"

\* Mutant of SameRepository: the deployment job without its condition.
SameRepositoryUnchecked(r) == TRUE

\* Preview deployments are only made for pull requests of this repository.
SameRepository(r) == ~r.fork

\* Mutant of AfterCiJob: the deployment job without needs: ci.
AfterCiJobWithoutNeeds(r, ciOk) ==
    CASE r.kind = "merge-queue" -> "setup-deploy"
      [] r.kind = "pr-preview" ->
           IF ~r.fork THEN "setup-deploy" ELSE "conclude"
      [] OTHER -> "conclude"

\* What a run does once its ci job has ended: the deployment job needs ci,
\* so it starts only when ci succeeded; ci.yml alone has nothing more to do.
AfterCiJob(r, ciOk) ==
    IF ~ciOk THEN "conclude"
    ELSE CASE r.kind = "merge-queue" -> "setup-deploy"
           [] r.kind = "pr-preview" ->
                IF SameRepository(r) THEN "setup-deploy" ELSE "conclude"
           [] OTHER -> "conclude"

\* The run after the step at pc ended: the step is recorded, the next
\* step of the job is up, and a failing step ends its job. The rollback
\* job still creates its notification.
StepDone(r, ok) ==
    LET q == [r EXCEPT !.steps = Append(r.steps, r.pc)]
    IN IF r.pc \in {"setup", "check", "ci-e2e"}
       THEN IF ~ok
            THEN [q EXCEPT !.failed = r.pc, !.ci = "failure",
                           !.pc = AfterCiJob(r, FALSE)]
            ELSE IF r.pc = "ci-e2e"
            THEN [q EXCEPT !.ci = "success", !.pc = AfterCiJob(r, TRUE)]
            ELSE [q EXCEPT !.pc = Successor(CiSteps, r.pc)]
       ELSE IF ok THEN [q EXCEPT !.pc = Successor(JobSteps(r), r.pc)]
            ELSE [q EXCEPT !.failed = r.pc,
                           !.pc = IF r.kind = "rollback" /\ r.pc # "notify"
                                  THEN "notify" ELSE "conclude"]

\* ci job: checkout and the setup-node action; they pass or fail.
SetupNode ==
    \E i \in RunIds, ok \in BOOLEAN :
        /\ runs[i].pc = "setup"
        /\ runs' = [runs EXCEPT ![i] = StepDone(runs[i], ok)]
        /\ UNCHANGED <<parents, head, production, events, tests>>

\* check action: pnpm run lint, pnpm run typecheck, pnpm run build, each
\* run only when the one before passed; checks[k] tells whether the k-th
\* passes. The result is the first script that fails ("none": all pass).
CheckScripts == <<"lint", "typecheck", "build">>

CheckAction(checks) ==
    IF \A k \in 1..Len(CheckScripts) : checks[k] THEN "none"
    ELSE CheckScripts[CHOOSE k \in 1..Len(CheckScripts) :
             ~checks[k] /\ \A j \in 1..(k - 1) : checks[j]]

\* ci job: the check step.
Check ==
    \E i \in RunIds, checks \in [1..Len(CheckScripts) -> BOOLEAN] :
        LET res == CheckAction(checks)
            r == StepDone(runs[i], res = "none")
        IN /\ runs[i].pc = "check"
           /\ runs' = [runs EXCEPT ![i] =
                  IF res = "none" THEN r ELSE [r EXCEPT !.failed = res]]
           /\ UNCHANGED <<parents, head, production, events, tests>>

\* Mutant of RunsE2E: the e2e step without its condition.
RunsE2EAlways(input) == TRUE

\* ci.yml: the e2e step runs if: inputs.playwright-base-url != ''.
RunsE2E(input) == input # NoUrl

CiE2E ==
    \E i \in RunIds, ok \in BOOLEAN :
        /\ runs[i].pc = "ci-e2e"
        /\ IF RunsE2E(runs[i].input)
           THEN runs' = [runs EXCEPT ![i] = StepDone(
                    [runs[i] EXCEPT !.ciE2e = IF ok THEN "success" ELSE "failure"],
                    ok)]
           ELSE /\ ok
                /\ runs' = [runs EXCEPT ![i] =
                       StepDone([runs[i] EXCEPT !.ciE2e = "skipped"], TRUE)]
        /\ UNCHANGED <<parents, head, production, events, tests>>

------------------------------------------------------------------------------
\* The deployment jobs

\* deployment job: the setup-node action.
SetupNodeDeploy ==
    \E i \in RunIds, ok \in BOOLEAN :
        /\ runs[i].pc = "setup-deploy"
        /\ runs' = [runs EXCEPT ![i] = StepDone(runs[i], ok)]
        /\ UNCHANGED <<parents, head, production, events, tests>>

\* deployment job: the setup-shopify-cli action.
Authenticate ==
    \E i \in RunIds, ok \in BOOLEAN :
        /\ runs[i].pc = "auth"
        /\ runs' = [runs EXCEPT ![i] = StepDone(runs[i], ok)]
        /\ UNCHANGED <<parents, head, production, events, tests>>

\* rollback job: the revision to redeploy, the one supplied by hand or the
\* previous commit of the revision that failed.
RollbackTarget(r) ==
    IF r.trigger = "workflow_dispatch" THEN r.supplied
    ELSE PreviousCommit(r.failedRev)

\* rollback job: check out the revision to redeploy.
RollbackCheckout ==
    \E i \in RunIds, ok \in BOOLEAN :
        /\ runs[i].pc = "checkout"
        /\ runs' = [runs EXCEPT ![i] = StepDone(
               [runs[i] EXCEPT !.target = IF ok THEN RollbackTarget(runs[i]) ELSE 0],
               ok)]
        /\ UNCHANGED <<parents, head, production, events, tests>>

\* Whether a run deploys to the preview environment (preview: true).
IsPreview(r) == r.kind = "pr-preview"

\* deploy action: its exit status, given whether the Shopify CLI deployed.
\* It exits with an error code on a production deployment failure.
DeployAction(preview, deployedOk) ==
    IF deployedOk \/ preview THEN "success" ELSE "failure"

\* The deploy step starts.
DeployStart ==
    \E i \in RunIds :
        /\ runs[i].pc = "deploy"
        /\ runs[i].deploy = "pending"
        /\ runs' = [runs EXCEPT ![i].deploy = "running"]
        /\ UNCHANGED <<parents, head, production, events, tests>>

\* The revision a run deploys to production (0: it deploys a preview).
ProductionRevision(r) ==
    CASE r.kind = "merge-queue" -> r.rev
      [] r.kind = "rollback" -> r.target
      [] OTHER -> 0

\* The deploy step ends: the CLI deployed or not.
DeployFinish ==
    \E i \in RunIds, ok \in BOOLEAN :
        LET r == runs[i]
            status == DeployAction(IsPreview(r), ok)
        IN /\ r.pc = "deploy"
           /\ r.deploy = "running"
           /\ runs' = [runs EXCEPT ![i] = StepDone(
                  [r EXCEPT !.deploy = status, !.deployed = ok],
                  status = "success")]
           /\ production' = IF ok /\ ProductionRevision(r) # 0
                            THEN ProductionRevision(r) ELSE production
           /\ UNCHANGED <<parents, head, events, tests>>

\* pr-preview.yml: comment the pull request with the preview URL.
Comment ==
    \E i \in RunIds, ok \in BOOLEAN :
        /\ runs[i].pc = "comment"
        /\ runs' = [runs EXCEPT ![i] = StepDone(
               [runs[i] EXCEPT !.comment = ok], ok)]
        /\ UNCHANGED <<parents, head, production, events, tests>>

\* merge-queue.yml: wait for the deployment to be ready; the wait ends
\* with the deployment ready or times out.
WaitReady ==
    \E i \in RunIds, ok \in BOOLEAN :
        /\ runs[i].pc = "wait"
        /\ runs' = [runs EXCEPT ![i] = StepDone(runs[i], ok)]
        /\ UNCHANGED <<parents, head, production, events, tests>>

\* The production URL: the one parsed from the deployment output, else the
\* PRODUCTION_URL secret.
ProductionUrl(parsed, secret) == IF parsed # NoUrl THEN parsed ELSE secret

\* merge-queue.yml, step production-url.
ProductionUrlStep ==
    \E i \in RunIds, parsed \in {NoUrl, ParsedUrl}, secret \in {NoUrl, SecretUrl} :
        /\ runs[i].pc = "url"
        /\ runs' = [runs EXCEPT ![i] = StepDone(
               [runs[i] EXCEPT !.url = ProductionUrl(parsed, secret)], TRUE)]
        /\ UNCHANGED <<parents, head, production, events, tests>>

\* e2e-tests action: the base URL of the tests is its base-url input, and
\* its default when the input is empty.
E2EBaseUrl(input) == IF input = NoUrl THEN LocalhostUrl ELSE input

\* merge-queue.yml: the e2e-tests action starts, with base-url the output
\* of the production-url step.
E2EStart ==
    \E i \in RunIds :
        /\ runs[i].pc = "e2e"
        /\ runs[i].e2e = "pending"
        /\ runs' = [runs EXCEPT ![i] = [runs[i] EXCEPT !.e2e = "running",
                                   !.baseUrl = E2EBaseUrl(runs[i].url)]]
        /\ UNCHANGED <<parents, head, production, events, tests>>

\* The Playwright tests pass or fail.
E2EFinish ==
    \E i \in RunIds, ok \in BOOLEAN :
        /\ runs[i].pc = "e2e"
        /\ runs[i].e2e = "running"
        /\ runs' = [runs EXCEPT ![i] = StepDone(
               [runs[i] EXCEPT !.e2e = IF ok THEN "success" ELSE "failure"], ok)]
        /\ UNCHANGED <<parents, head, production, events, tests>>

\* rollback job: create the notification of the rollback.
Notify ==
    \E i \in RunIds :
        /\ runs[i].pc = "notify"
        /\ runs' = [runs EXCEPT ![i] = [runs[i] EXCEPT !.notified = TRUE,
                              !.steps = Append(runs[i].steps, "notify"),
                              !.pc = "conclude"]]
        /\ UNCHANGED <<parents, head, production, events, tests>>

------------------------------------------------------------------------------
\* Conclusion of a run, the merge queue and the workflow_run event

\* Mutant of Conclusion: the E2E step marked continue-on-error.
ConclusionContinueOnError(r) ==
    IF r.failed \in {"none", "e2e"} THEN "success" ELSE "failure"

\* A run succeeds when no step of it failed.
Conclusion(r) == IF r.failed = "none" THEN "success" ELSE "failure"

\* Mutant of EmitsWorkflowRun: rollback.yml listening to its own runs too.
EmitsWorkflowRunOfRollbacks(r) == r.kind \in {"merge-queue", "rollback"}

\* rollback.yml listens to the completion of merge queue deployment runs.
EmitsWorkflowRun(r) == r.kind = "merge-queue"

\* Mutant of MergeAllowed: the deployment not among the required checks.
MergeAllowedUnchecked(r) == TRUE

\* The merge queue merges a merge group whose required checks passed.
MergeAllowed(r) == r.conclusion = "success"

\* The merge queue's decision on a concluded run.
MergeGate(r) ==
    IF r.merge # "queued" THEN r
    ELSE [r EXCEPT !.merge = IF MergeAllowed(r) THEN "merged" ELSE "blocked"]

\* A run ends: its conclusion is reported, the merge queue merges the
\* merge group or removes it, and the completion event is emitted.
Conclude ==
    \E i \in RunIds :
        LET r == MergeGate([runs[i] EXCEPT !.pc = "done",
                               !.conclusion = Conclusion(runs[i])])
        IN /\ runs[i].pc = "conclude"
           /\ runs' = [runs EXCEPT ![i] = r]
           /\ head' = IF r.merge = "merged" THEN r.rev ELSE head
           /\ events' = IF EmitsWorkflowRun(r) THEN events \cup {i} ELSE events
           /\ UNCHANGED <<parents, production, tests>>

Next ==
    \/ MergeGroup
    \/ WorkflowRunCompleted \/ WorkflowDispatch
    \/ SetupNode \/ Check \/ CiE2E
    \/ SetupNodeDeploy \/ Authenticate \/ RollbackCheckout
    \/ DeployStart \/ DeployFinish
    \/ WaitReady \/ ProductionUrlStep \/ E2EStart \/ E2EFinish
    \/ Notify \/ Conclude

Spec == Init /\ [][Next]_vars

\* The reusable CI workflow alone, called with and without a base URL.
NextCi ==
    \/ WorkflowCall
    \/ SetupNode \/ Check \/ CiE2E \/ Conclude

SpecCi == Init /\ [][NextCi]_vars

\* The deployments made for pull requests and pushes.
NextPreview ==
    \/ PullRequest \/ Push
    \/ SetupNode \/ Check \/ CiE2E
    \/ SetupNodeDeploy \/ Authenticate
    \/ DeployStart \/ DeployFinish \/ Comment \/ Conclude

SpecPreview == Init /\ [][NextPreview]_vars

\* The two publishers, each run with its ci job and its deployment job.
NextPublishers ==
    \/ PullRequest \/ MergeGroup
    \/ SetupNode \/ Check \/ CiE2E
    \/ SetupNodeDeploy \/ Authenticate
    \/ DeployStart \/ DeployFinish \/ Comment
    \/ WaitReady \/ ProductionUrlStep \/ E2EStart \/ E2EFinish
    \/ Conclude

SpecPublishers == Init /\ [][NextPublishers]_vars

------------------------------------------------------------------------------
\* The Playwright suite, tests/e2e/critical.spec.js

\* What getAttribute('href') returns: null, an empty string, a path.
Null == "null"
ProductHref == "/products/one"
CollectionHref == "/collections/one"

TestNames ==
    <<"app loads successfully", "homepage renders products",
      "product page loads and renders product details",
      "collections page loads and displays products">>

ProductTest == 3
CollectionsTest == 4

\* Mutant of Truthy: only null taken for a missing value.
TruthyNotNull(v) == v # Null

\* JavaScript truthiness of a string or null.
Truthy(v) == v \notin {Null, ""}

\* One call of a test: op is the call, arg the path or the locator.
Ins(op, arg) == [op |-> op, arg |-> arg]

\* Mutant of CollectionsBranch: no fallback to /collections.
CollectionsBranchWithoutFallback(href) ==
    <<Ins("gotoHref", href), Ins("load", "networkidle"),
      Ins("visible", "h1"), Ins("visible", ".products-grid")>>

\* The collections test after it read the link's href: the collection
\* page when there is one, else /collections itself.
CollectionsBranch(href) ==
    IF Truthy(href)
    THEN <<Ins("gotoHref", href), Ins("load", "networkidle"),
           Ins("visible", "h1"), Ins("visible", ".products-grid")>>
    ELSE <<Ins("goto", "/collections"), Ins("url", "collections")>>

\* The calls of test k, in order, given the href it read (Null before).
Program(k, href) ==
    CASE k = 1 ->
           <<Ins("goto", "/"), Ins("load", "networkidle"), Ins("title", "Hydrogen")>>
      [] k = 2 ->
           <<Ins("goto", "/"), Ins("load", "networkidle"),
             Ins("visible", "recommended products"),
             Ins("visible", ".recommended-products-grid"),
             Ins("count", ".product-item"), Ins("visible", ".product-item")>>
      [] k = ProductTest ->
           <<Ins("goto", "/"), Ins("load", "networkidle"),
             Ins("visible", ".recommended-products-grid"),
             Ins("visible", ".product-item"), Ins("attr", ".product-item"),
             Ins("truthy", "productUrl"), Ins("guard", "productUrl"),
             Ins("gotoHref", href), Ins("load", "networkidle"),
             Ins("visible", "h1"), Ins("visible", ".product")>>
      [] k = CollectionsTest ->
           <<Ins("goto", "/"), Ins("load", "networkidle"),
             Ins("attrCatch", ".featured-collection, a[href*=/collections/]")>>
           \o CollectionsBranch(href)
      [] OTHER -> <<>>

\* A test before its first call.
NewTest(k) ==
    [index |-> k, pc |-> 1, href |-> Null, visited |-> <<>>, done |-> <<>>,
     result |-> "running", error |-> "none"]

\* The test that is running, if one is.
Running == tests # <<>> /\ tests[Len(tests)].result = "running"
Cur == tests[Len(tests)]
Call == Program(Cur.index, Cur.href)[Cur.pc]

\* The test after its call at pc ended: a failed expectation or a thrown
\* error ends the test in failure, the last call passing ends it passed.
CallDone(t, ok, err) ==
    LET ins == Program(t.index, t.href)[t.pc]
        q == [t EXCEPT !.done = Append(t.done, [op |-> ins.op, arg |-> ins.arg, ok |-> ok])]
    IN IF ~ok THEN [q EXCEPT !.result = "failed", !.error = err, !.pc = 0]
       ELSE IF t.pc = Len(Program(t.index, t.href))
       THEN [q EXCEPT !.result = "passed", !.pc = 0]
       ELSE [q EXCEPT !.pc = t.pc + 1]

SetCur(t) ==
    /\ tests' = [tests EXCEPT ![Len(tests)] = t]
    /\ UNCHANGED <<runs, parents, head, production, events>>

\* The runner starts the next test of the file.
TestBegin ==
    /\ ~Running
    /\ Len(tests) < Len(TestNames)
    /\ tests' = Append(tests, NewTest(Len(tests) + 1))
    /\ UNCHANGED <<runs, parents, head, production, events>>

\* page.goto(path); expect(response?.status()).toBe(200).
Goto ==
    \E status \in {200, 404} :
        /\ Running /\ Call.op \in {"goto", "gotoHref"}
        /\ SetCur(CallDone([Cur EXCEPT !.visited = Append(Cur.visited, Call.arg)],
                           status = 200, "status"))

\* page.waitForLoadState('networkidle').
WaitForLoadState ==
    \E ok \in BOOLEAN :
        /\ Running /\ Call.op = "load"
        /\ SetCur(CallDone(Cur, ok, "timeout"))

\* expect(page).toHaveTitle(/Hydrogen/).
ExpectTitle ==
    \E ok \in BOOLEAN :
        /\ Running /\ Call.op = "title"
        /\ SetCur(CallDone(Cur, ok, "title"))

\* expect(locator).toBeVisible().
ExpectVisible ==
    \E ok \in BOOLEAN :
        /\ Running /\ Call.op = "visible"
        /\ SetCur(CallDone(Cur, ok, "not visible"))

\* expect(await productLinks.count()).toBeGreaterThan(0).
ExpectCount ==
    \E count \in 0..1 :
        /\ Running /\ Call.op = "count"
        /\ SetCur(CallDone(Cur, count > 0, "count"))

\* locator.getAttribute('href'): the attribute, null when the element has
\* none, or a rejection; the collections test turns a rejection into null.
GetAttribute ==
    \E v \in {Null, "", ProductHref, CollectionHref}, rejects \in BOOLEAN :
        /\ Running /\ Call.op \in {"attr", "attrCatch"}
        /\ rejects => v = Null
        /\ SetCur(CallDone([Cur EXCEPT !.href = v],
                           ~rejects \/ Call.op = "attrCatch", "getAttribute"))

\* expect(productUrl).toBeTruthy().
ExpectTruthy ==
    /\ Running /\ Call.op = "truthy"
    /\ SetCur(CallDone(Cur, Truthy(Cur.href), "expect(productUrl).toBeTruthy()"))

\* if (!productUrl) throw new Error('No product URL found on homepage').
ThrowIfMissing ==
    /\ Running /\ Call.op = "guard"
    /\ SetCur(CallDone(Cur, Truthy(Cur.href), "No product URL found on homepage"))

\* expect(page).toHaveURL(/collections/).
ExpectUrl ==
    \E ok \in BOOLEAN :
        /\ Running /\ Call.op = "url"
        /\ SetCur(CallDone(Cur, ok, "url"))

NextTests ==
    \/ TestBegin \/ Goto \/ WaitForLoadState \/ ExpectTitle \/ ExpectVisible
    \/ ExpectCount \/ GetAttribute \/ ExpectTruthy \/ ThrowIfMissing \/ ExpectUrl

SpecTests == Init /\ [][NextTests]_vars

------------------------------------------------------------------------------
\* Properties

MergeQueueRuns == {i \in RunIds : runs[i].kind = "merge-queue"}
PreviewRuns == {i \in RunIds : runs[i].kind = "pr-preview"}
RollbackRuns == {i \in RunIds : runs[i].kind = "rollback"}

\* Step a was recorded in run r, and before step b.
Before(r, a, b) ==
    \E m, n \in 1..Len(r.steps) :
        r.steps[m] = a /\ r.steps[n] = b /\ m < n

\* The three stages of a merge queue run passed, one after the other.
AllThreePassed(r) ==
    /\ r.ci = "success"
    /\ r.deploy = "success" /\ r.deployed
    /\ r.e2e = "success"
    /\ Before(r, "check", "deploy")
    /\ Before(r, "ci-e2e", "deploy")
    /\ Before(r, "deploy", "e2e")

\* C1: a merge queue deployment run reports success only if its ci job
\* passed, then its production deployment succeeded, then its E2E tests
\* passed, in that order; none of the three failed or was skipped.
C1_SuccessNeedsAllThree ==
    \A i \in MergeQueueRuns :
        runs[i].conclusion = "success" => AllThreePassed(runs[i])

C1_Witness ==
    \E i \in MergeQueueRuns :
        runs[i].conclusion = "success" /\ production = runs[i].rev

\* C2: in a merge queue deployment run the E2E tests start only after the
\* deployment step has ended in success and the deployment is ready, and
\* the two are never running together.
C2_TestsAfterDeployment ==
    \A i \in MergeQueueRuns :
        /\ runs[i].e2e # "pending" =>
              /\ runs[i].deploy = "success" /\ runs[i].deployed
              /\ Before(runs[i], "deploy", "wait")
        /\ ~(runs[i].deploy = "running" /\ runs[i].e2e = "running")

C2_Witness ==
    \E i \in MergeQueueRuns :
        runs[i].e2e = "running" /\ production = runs[i].rev

\* The rollback runs the completion of run i started.
RollbacksOf(i) ==
    {j \in RollbackRuns : runs[j].trigger = "workflow_run" /\ runs[j].cause = i}

C4_NeverTheFailedRevision ==
    \A j \in RollbackRuns :
        runs[j].target # 0 => runs[j].target # runs[j].failedRev

\* C5: the ci job runs its e2e step if and only if a base URL was given:
\* a run that reaches the step without one skips it, a run never fails for
\* lack of one, and its outcome is then that of lint, typecheck and build
\* (and of the setup they need).
C5_TestsIffBaseUrl ==
    \A i \in RunIds :
        LET r == runs[i]
        IN HasCiJob(r) =>
            /\ r.ciE2e \in {"success", "failure"} => r.input # NoUrl
            /\ r.ciE2e = "skipped" => r.input = NoUrl
            /\ r.ci # "pending" /\ r.failed \notin {"setup", "lint", "typecheck", "build"}
                 => (r.ciE2e = "skipped" <=> r.input = NoUrl)
            /\ r.input = NoUrl /\ r.ci # "pending" =>
                 /\ r.failed # "ci-e2e"
                 /\ r.ci = "failure" <=>
                        r.failed \in {"setup", "lint", "typecheck", "build"}

C5_Witness ==
    \E i, j \in RunIds :
        /\ runs[i].kind = "ci" /\ runs[j].kind = "ci"
        /\ runs[i].input = NoUrl /\ runs[i].ciE2e = "skipped"
        /\ runs[i].conclusion = "success"
        /\ runs[j].input = CallerUrl /\ runs[j].ciE2e = "failure"
        /\ runs[j].conclusion = "failure"

\* The steps of a deployment job.
DeploymentSteps == {"setup-deploy", "auth", "deploy", "comment", "wait", "url", "e2e"}

\* No step of the deployment job of run r has run.
NothingDeployed(r) ==
    /\ r.deploy = "pending" /\ ~r.deployed /\ ~r.comment
    /\ r.pc \notin DeploymentSteps
    /\ \A n \in 1..Len(r.steps) : r.steps[n] \notin DeploymentSteps

\* C6: the preview workflow never deploys nor comments for a pull request
\* that comes from a fork; every deployment it starts is for a change of
\* this repository.
C6_NoPreviewForForks ==
    \A i \in RunIds :
        /\ runs[i].kind = "pr-preview" /\ runs[i].fork => NothingDeployed(runs[i])
        /\ runs[i].deploy # "pending" => ~runs[i].fork

C6_Witness ==
    \E i, j \in PreviewRuns :
        /\ runs[i].fork /\ runs[i].ci = "success" /\ runs[i].conclusion = "success"
        /\ ~runs[j].fork /\ runs[j].deployed

\* C7: in a preview or merge queue deployment run whose ci job failed, the
\* run is over and no step of the deployment job is ever run.
C7_NoDeployAfterFailedCi ==
    \A i \in PreviewRuns \cup MergeQueueRuns :
        runs[i].ci = "failure" =>
            /\ NothingDeployed(runs[i])
            /\ runs[i].pc \in {"conclude", "done"}
            /\ runs[i].conclusion # "success"

C7_Witness ==
    \E i \in PreviewRuns, j \in MergeQueueRuns :
        /\ runs[i].ci = "failure" /\ ~runs[i].fork /\ runs[i].conclusion = "failure"
        /\ runs[j].ci = "failure" /\ runs[j].conclusion = "failure"

\* The revisions the merge queue merged.
Merged == {runs[i].rev : i \in {k \in MergeQueueRuns : runs[k].merge = "merged"}}

\* C8: a merge group is merged only if its merge queue deployment run
\* succeeded, with ci, deployment and E2E tests passed; a failed run blocks
\* the merge, and a successful one merges with no further step.
C8_MergeGatedOnSuccess ==
    /\ \A i \in MergeQueueRuns :
          /\ runs[i].merge = "merged" =>
                runs[i].conclusion = "success" /\ AllThreePassed(runs[i])
          /\ runs[i].conclusion = "failure" => runs[i].merge = "blocked"
          /\ runs[i].conclusion = "success" => runs[i].merge = "merged"
          /\ runs[i].conclusion = "none" => runs[i].merge = "queued"
    /\ head \in {1} \cup Merged

C8_Witness ==
    \E i, j \in MergeQueueRuns :
        /\ runs[i].merge = "merged" /\ head = runs[i].rev
        /\ runs[j].merge = "blocked" /\ runs[j].failed = "deploy"

\* C9: a failed rollback run is the end of the automation: its completion
\* emits no event and starts no run; every run started by a completion
\* event is a rollback of a failed merge queue deployment run, and a new
\* rollback of the same failure is started by hand only.
C9_FailedRollbackIsTerminal ==
    /\ \A j \in RollbackRuns :
          runs[j].conclusion = "failure" =>
              /\ j \notin events
              /\ \A k \in RunIds : runs[k].cause # j
    /\ \A k \in RunIds :
          runs[k].trigger = "workflow_run" =>
              /\ runs[k].kind = "rollback"
              /\ runs[k].cause \in MergeQueueRuns
              /\ runs[runs[k].cause].conclusion = "failure"
    /\ \A k \in RollbackRuns :
          runs[k].trigger \in {"workflow_run", "workflow_dispatch"}

C9_Witness ==
    \E j, k \in RollbackRuns :
        /\ runs[j].trigger = "workflow_run"
        /\ runs[j].failed = "deploy" /\ runs[j].conclusion = "failure"
        /\ j < k /\ runs[k].trigger = "workflow_dispatch"
        /\ runs[k].conclusion = "success"

\* C10: the preview workflow comments the pull request only after its ci
\* job and its preview deployment both succeeded; when the deployment
\* fails no comment is posted.
C10_CommentOnlyAfterDeployment ==
    \A i \in PreviewRuns :
        runs[i].comment => runs[i].ci = "success" /\ runs[i].deployed

\* The steps of the ci job and of the tests.
VerificationSteps == {"setup", "check", "ci-e2e", "e2e"}

\* C11: a rollback run, started by a completion event or by hand, only
\* checks out its revision and redeploys it (and notifies): it never runs
\* lint, typecheck, build or the E2E tests.
C11_RollbackOnlyRedeploys ==
    \A j \in RollbackRuns :
        /\ runs[j].ci = "pending" /\ runs[j].ciE2e = "pending"
        /\ runs[j].e2e = "pending"
        /\ runs[j].pc \notin VerificationSteps
        /\ \A n \in 1..Len(runs[j].steps) :
              runs[j].steps[n] \in {"checkout", "auth", "deploy", "notify"}

C11_Witness ==
    \E j, k \in RollbackRuns :
        /\ runs[j].trigger = "workflow_run" /\ runs[k].trigger = "workflow_dispatch"
        /\ runs[j].conclusion = "success" /\ runs[k].conclusion = "success"
        /\ runs[j].deployed /\ runs[k].deployed
        /\ runs[j].steps = <<"checkout", "auth", "deploy", "notify">>

\* C14: a rollback run is started by a completion event only for a merge
\* queue deployment run whose deployment or E2E tests failed: never for a
\* successful run, and never for a run that failed before its deployment
\* was attempted.
C14_RollbackOnlyAfterDeployment ==
    \A j \in RollbackRuns :
        runs[j].trigger = "workflow_run" =>
            /\ runs[runs[j].cause].conclusion = "failure"
            /\ runs[runs[j].cause].deploy # "pending"

\* C15: the E2E tests of a merge queue deployment run are handed the
\* production URL of the run's deployment, parsed from the deployment's
\* output or taken from the PRODUCTION_URL secret, never an empty URL nor
\* the default of the e2e-tests action.
C15_TestsAgainstProductionUrl ==
    \A i \in MergeQueueRuns :
        runs[i].e2e # "pending" =>
            /\ runs[i].baseUrl \in {ParsedUrl, SecretUrl}
            /\ runs[i].baseUrl = runs[i].url

\* The tests of the suite that read the href of their link.
ReadHref(k) ==
    {n \in 1..Len(tests) :
        /\ tests[n].index = k
        /\ \E d \in 1..Len(tests[n].done) : tests[n].done[d].op \in {"attr", "attrCatch"}}

IsPrefix(a, b) == Len(a) <= Len(b) /\ SubSeq(b, 1, Len(a)) = a

Made(t) == [d \in 1..Len(t.done) |-> [op |-> t.done[d].op, arg |-> t.done[d].arg]]

AllOk(t) == \A d \in 1..Len(t.done) : t.done[d].ok

MissingUrlErrors == {"expect(productUrl).toBeTruthy()", "No product URL found on homepage"}

\* C12: a product-detail test whose first product item has a null or empty
\* href fails with a missing-URL error at the check of the href: it visits
\* the home page only and makes no call on a product page.
C12_MissingProductUrlFails ==
    \A n \in ReadHref(ProductTest) :
        LET t == tests[n] IN
        t.href \in {Null, ""} /\ t.done[5].ok =>
            /\ t.visited = <<"/">>
            /\ t.result # "passed"
            /\ \A d \in 1..Len(t.done) :
                   /\ t.done[d].op # "gotoHref"
                   /\ t.done[d].arg \notin {"h1", ".product"}
            /\ t.pc = 0 => /\ t.result = "failed"
                           /\ t.error \in MissingUrlErrors
                           /\ Len(t.done) = 6
            /\ t.pc # 0 => t.pc = 6

C12_Witness ==
    \E n \in ReadHref(ProductTest) :
        /\ tests[n].href = "" /\ tests[n].done[5].ok
        /\ tests[n].result = "failed"
        /\ tests[n].error \in MissingUrlErrors
        /\ tests[n].visited = <<"/">>

\* C13: a collections test that got no href visits /collections and passes
\* exactly when the status is 200 and the URL matches; one that got an href
\* visits it and passes exactly when the status is 200 and the heading and
\* the product grid are visible.
C13_CollectionsFallback ==
    \A n \in ReadHref(CollectionsTest) :
        LET t == tests[n]
            after == SubSeq(Made(t), 4, Len(t.done))
            fallback == <<Ins("goto", "/collections"), Ins("url", "collections")>>
            page == <<Ins("gotoHref", t.href), Ins("load", "networkidle"),
                      Ins("visible", "h1"), Ins("visible", ".products-grid")>>
            none == t.href \in {Null, ""}
            plan == IF none THEN fallback ELSE page
        IN /\ IsPrefix(after, plan)
           /\ IsPrefix(t.visited, <<"/", IF none THEN "/collections" ELSE t.href>>)
           /\ t.result = "passed" <=> after = plan /\ AllOk(t)
           /\ t.result = "failed" <=> ~AllOk(t)

C13_Witness ==
    \E n \in ReadHref(CollectionsTest) :
        /\ tests[n].href = Null /\ tests[n].result = "passed"
        /\ tests[n].visited = <<"/", "/collections">>
        /\ AllOk(tests[n])


====
